---------------------------- MODULE Spec2Model ----------------------------
(***************************************************************************)
(* Exception trees of the exn crate: Exn<E> handles owning a Frame tree,   *)
(* the source-chain importer, raise / raise_all, the tree renderer, the    *)
(* type-erasing representations (Tree, List, Anyhow), the extension traits *)
(* and the macros.                                                         *)
(*                                                                         *)
(* An error value is a non-empty sequence of links [ty, msg]: the head is  *)
(* the error itself, the tail is what Error::source() returns (again an    *)
(* error value, or nothing when the tail is empty).                        *)
(* A Location is [file, line, column].  A Frame is                         *)
(* [id, error, location, children]; id is the identity of the allocation   *)
(* (a Frame is moved, never copied), the other three are the struct's      *)
(* fields.  An Exn<E> is [frame, phantom] with phantom the type E.         *)
(*                                                                         *)
(* Spec is the core: construction, merging, rendering, erasure.  SpecExt   *)
(* is every operation that constructs an Exn, the adapters and the macros  *)
(* included.  SpecIter is collect_all over every short iterator.           *)
(***************************************************************************)
EXTENDS Naturals, Integers, Sequences, FiniteSets, TLC

VARIABLES pool,     \* the live Exn handles (each owns its tree)
          nextId,   \* identity of the next Frame to be allocated
          any,      \* the ExnAny the program ended with (None before that),
                    \* with the handle it was converted from
          last      \* the last operation: its inputs and what it returned

vars == <<pool, nextId, any, last>>

(***************************************************************************)
(* Bounds.                                                                 *)
(***************************************************************************)
MaxFrames == 4      \* frames allocated by the free-running operations
MaxSrc == 2         \* length of the longest native source chain
MaxExtFrames == 3   \* frames allocated in the runs that use the adapters
MaxItems == 3       \* items of the longest iterator given to collect_all

\* Option::None, and Some(x) as a one-element sequence
None == <<>>
Some(x) == <<x>>

\* The concrete error types of the client
Types == {"A", "B"}

\* The success values of the client's results and options
Values == {"t", "u"}

\* The call sites (#[track_caller] locations) of the free-running operations:
\* two lines of the client's source.
Locations ==
    {[file |-> "src/main.rs", line |-> l, column |-> 5] : l \in {10, 20}}

RECURSIVE NativeChain(_, _)
\* The links s<k>, ..., s<n> of a native source chain.
NativeChain(k, n) ==
    IF k > n THEN <<>>
    ELSE <<[ty |-> "Src", msg |-> "s" \o ToString(k)]>> \o NativeChain(k + 1, n)

\* The concrete errors an operation may be called with when id frames have
\* been allocated before it: a plain error of type A (no source), or an error
\* of type B that has a native source chain of 1..MaxSrc links.  The message
\* names the frame the error will live in ("E1", "E2", ... as in the tests).
Errors(id) ==
    {<<[ty |-> "A", msg |-> "E" \o ToString(id)]>>}
    \cup {<<[ty |-> "B", msg |-> "E" \o ToString(id)]>> \o NativeChain(1, n) :
              n \in 1..MaxSrc}

(***************************************************************************)
(* std::error::Error as the crate uses it.                                 *)
(***************************************************************************)
\* Error::source
source(error) == IF Len(error) > 1 THEN Tail(error) ELSE None

\* ToString::to_string / Display of an error: its own message
to_string(error) == error[1].msg

\* The concrete type behind a Box<dyn Error> (what downcast_ref tests)
TypeOf(error) == error[1].ty

\* struct SourceError(String): a text-only payload with no source of its own
SourceError(s) == <<[ty |-> "SourceError", msg |-> s]>>

(***************************************************************************)
(* Exn::new and its importer.                                              *)
(***************************************************************************)
RECURSIVE walk_self(_, _, _)
\* walk importing the text of the error instead of the text of its source
walk_self(error, location, id) ==
    IF source(error) = None THEN <<>>
    ELSE <<[id |-> id,
            error |-> SourceError(to_string(error)),
            location |-> location,
            children |-> walk_self(source(error), location, id + 1)]>>

RECURSIVE walk_typed(_, _, _)
\* walk boxing the source itself instead of its text
walk_typed(error, location, id) ==
    IF source(error) = None THEN <<>>
    ELSE <<[id |-> id,
            error |-> source(error),
            location |-> location,
            children |-> walk_typed(source(error), location, id + 1)]>>

RECURSIVE walk(_, _, _)
\* fn walk: one child per link of the native chain, nested
walk(error, location, id) ==
    IF source(error) = None THEN <<>>
    ELSE <<[id |-> id,
            error |-> SourceError(to_string(source(error))),
            location |-> location,
            children |-> walk(source(error), location, id + 1)]>>

\* Frames Exn::new allocates for error
Allocated(error) == Len(error)

\* Exn::new(error) called at location
New(error, location, id) ==
    [frame |-> [id |-> id,
                error |-> error,
                location |-> location,
                children |-> walk(error, location, id + 1)],
     phantom |-> TypeOf(error)]

RECURSIVE Frames(_)
\* the root frames of a sequence of handles, in order
Frames(exns) ==
    IF exns = <<>> THEN <<>> ELSE <<Head(exns).frame>> \o Frames(Tail(exns))

\* raise_all putting the merged children before the imported ones
raise_all_prepend(children, error, location, id) ==
    LET new_exn == New(error, location, id)
    IN [new_exn EXCEPT !.frame.children = Frames(children) \o @]

\* Exn::raise_all(children, error) called at location
raise_all(children, error, location, id) ==
    LET new_exn == New(error, location, id)
    IN [new_exn EXCEPT !.frame.children = @ \o Frames(children)]

\* raise putting the wrapped frame before the imported children
raise_front(self, error, location, id) ==
    LET new_exn == New(error, location, id)
    IN [new_exn EXCEPT !.frame.children = <<self.frame>> \o @]

\* raise keeping only the root of the wrapped tree
raise_shallow(self, error, location, id) ==
    LET new_exn == New(error, location, id)
    IN [new_exn EXCEPT !.frame.children =
                           Append(@, [self.frame EXCEPT !.children = <<>>])]

\* raise recording the location of the wrapped frame
raise_at_origin(self, error, location, id) ==
    LET new_exn == New(error, self.frame.location, id)
    IN [new_exn EXCEPT !.frame.children = Append(@, self.frame)]

\* self.raise(error) called at location
raise(self, error, location, id) ==
    LET new_exn == New(error, location, id)
    IN [new_exn EXCEPT !.frame.children = Append(@, self.frame)]

(***************************************************************************)
(* Conversions into Exn and the extension traits.                          *)
(***************************************************************************)
\* error.into() for T: Into<E>: the identity when T is E, otherwise the
\* client's conversion, which keeps the message and the source chain.
Into(error, E) == IF TypeOf(error) = E THEN error ELSE [error EXCEPT ![1].ty = E]

\* From<T> for Exn<E> tagging the handle E without converting the error
FromError_unconverted(error, E, location, id) ==
    [New(error, location, id) EXCEPT !.phantom = E]

\* impl From<T> for Exn<E>
FromError(error, E, location, id) == New(Into(error, E), location, id)

\* Result::Ok / Result::Err
Ok(t) == [ok |-> TRUE, value |-> t]
Err(e) == [ok |-> FALSE, err |-> e]

\* impl ResultExt for Result<T, E>: or_raise; err is what the closure
\* returns.  The frames of e are allocated first, then those of the new root.
or_raise_error(self, err, B, location, id) ==
    IF self.ok THEN Ok(self.value)
    ELSE Err(raise(New(self.err, location, id), Into(err, B), location,
                   id + Allocated(self.err)))

\* or_raise building a fresh Exn from the closure's error and dropping e
or_raise_exn_replace(self, err, B, location, id) ==
    IF self.ok THEN Ok(self.value)
    ELSE Err(New(Into(err, B), location, id))

\* impl ResultExt for Result<T, Exn<E>>: or_raise
or_raise_exn(self, err, B, location, id) ==
    IF self.ok THEN Ok(self.value)
    ELSE Err(raise(self.err, Into(err, B), location, id))

\* ok_or_raise failing whatever the option holds
ok_or_raise_always(self, err, B, location, id) ==
    Err(New(Into(err, B), location, id))

\* impl OptionExt for Option<T>: ok_or_raise
ok_or_raise(self, err, B, location, id) ==
    IF self # None THEN Ok(self[1])
    ELSE Err(New(Into(err, B), location, id))

\* macro bail!: what the enclosing function returns (Some: it returns early)
bail(err, E, location, id) == Some(Err(FromError(err, E, location, id)))

\* ensure! bailing when the condition holds
ensure_inverted(cond, err, E, location, id) ==
    IF cond THEN bail(err, E, location, id) ELSE None

\* macro ensure!: None when execution continues after the macro
ensure(cond, err, E, location, id) ==
    IF ~cond THEN bail(err, E, location, id) ELSE None

\* <dyn Error>::downcast_ref::<E>
downcast_ref(error, E) == IF TypeOf(error) = E THEN Some(error) ELSE None

\* the panic of unreachable!("error type must match")
Unreachable == <<[ty |-> "!", msg |-> "error type must match"]>>

\* impl Deref for Exn<E>
Deref(exn) ==
    LET r == downcast_ref(exn.frame.error, exn.phantom)
    IN IF r # None THEN r[1] ELSE Unreachable

(***************************************************************************)
(* IteratorExt::collect_all.  An iterator is [items, pos]: the items it    *)
(* yields and the index of the one that next() returns.                    *)
(***************************************************************************)
\* The Err payloads of the items (collect_all is generic over E)
Payloads == {<<[ty |-> "A", msg |-> m]>> : m \in {"E1", "E2", "E3"}}

\* Iterator::next: the item (None at the end) and the iterator afterwards
next(iter) ==
    IF iter.pos > Len(iter.items) THEN [item |-> None, iter |-> iter]
    ELSE [item |-> Some(iter.items[iter.pos]), iter |-> [iter EXCEPT !.pos = @ + 1]]

RECURSIVE collect_result(_, _)
\* self.by_ref().collect::<Result<A, E>>(): Result's FromIterator takes items
\* until the first Err and leaves the rest in the iterator
collect_result(iter, acc) ==
    LET n == next(iter)
    IN IF n.item = None THEN [result |-> Ok(acc), iter |-> n.iter]
       ELSE IF n.item[1].ok
       THEN collect_result(n.iter, Append(acc, n.item[1].value))
       ELSE [result |-> Err(n.item[1].err), iter |-> n.iter]

RECURSIVE filter_map_err(_, _)
\* self.filter_map(Result::err) driven to its end by collect()
filter_map_err(iter, acc) ==
    LET n == next(iter)
    IN IF n.item = None THEN [items |-> acc, iter |-> n.iter]
       ELSE IF n.item[1].ok THEN filter_map_err(n.iter, acc)
       ELSE filter_map_err(n.iter, Append(acc, n.item[1].err))

\* collect_all stopping at the first Err, as Result's FromIterator does
collect_all_short_circuit(self) ==
    LET first == collect_result(self, <<>>)
    IN IF first.result.ok THEN first
       ELSE [result |-> Err(<<first.result.err>>), iter |-> first.iter]

\* IteratorExt::collect_all: the Result and the iterator as it is left
collect_all(self) ==
    LET first == collect_result(self, <<>>)
    IN IF first.result.ok THEN first
       ELSE LET rest == filter_map_err(first.iter, <<>>)
            IN [result |-> Err(<<first.result.err>> \o rest.items),
                iter |-> rest.iter]

(***************************************************************************)
(* The renderer.  Output is the sequence of the pieces written; "+- ",     *)
(* "L- " and "|  " stand for the box-drawing connectors U+251C U+2500,     *)
(* U+2514 U+2500 and the vertical bar U+2502 (each three columns wide).    *)
(***************************************************************************)
Tee == "+- "
Corner == "L- "
Bar == "|  "
Blank == "   "

\* Frame::debug: "{}, at {}:{}:{}"
debug(self) ==
    <<to_string(self.error), ", at ", self.location.file, ":",
      ToString(self.location.line), ":", ToString(self.location.column)>>

RECURSIVE debug_recursive_staircase(_, _, _)
\* debug_recursive without the flattening of single-child chains
debug_recursive_staircase(self, root, prefix) ==
    LET children == self.children
        children_len == Len(children)
        body(i) ==
            LET child == children[i + 1]
            IN IF i < children_len - 1
               THEN <<"\n">> \o prefix \o <<Tee>>
                    \o debug_recursive_staircase(child, FALSE, Append(prefix, Bar))
               ELSE <<"\n">> \o prefix \o <<Corner>>
                    \o debug_recursive_staircase(child, FALSE, Append(prefix, Blank))
        loop[n \in 0..children_len] ==
            IF n = 0 THEN <<>> ELSE loop[n - 1] \o body(n - 1)
    IN debug(self) \o loop[children_len]

RECURSIVE debug_recursive_no_last(_, _, _)
\* debug_recursive comparing the index with children_len instead of
\* children_len - 1: no child is taken for the last one
debug_recursive_no_last(self, root, prefix) ==
    LET children == self.children
        children_len == Len(children)
        body(i) ==
            LET child == children[i + 1]
                child_children_len == Len(child.children)
            IN IF root /\ children_len = 1 /\ child_children_len = 1
               THEN <<"\n">> \o prefix \o <<Tee>>
                    \o debug_recursive_no_last(child, root, prefix)
               ELSE IF i < children_len
               THEN <<"\n">> \o prefix \o <<Tee>>
                    \o debug_recursive_no_last(child, FALSE, Append(prefix, Bar))
               ELSE <<"\n">> \o prefix \o <<Corner>>
                    \o debug_recursive_no_last(child, FALSE, Append(prefix, Blank))
        loop[n \in 0..children_len] ==
            IF n = 0 THEN <<>> ELSE loop[n - 1] \o body(n - 1)
    IN debug(self) \o loop[children_len]

RECURSIVE debug_recursive_bar_last(_, _, _)
\* debug_recursive continuing the vertical bar below the last child too
debug_recursive_bar_last(self, root, prefix) ==
    LET children == self.children
        children_len == Len(children)
        body(i) ==
            LET child == children[i + 1]
                child_children_len == Len(child.children)
            IN IF root /\ children_len = 1 /\ child_children_len = 1
               THEN <<"\n">> \o prefix \o <<Tee>>
                    \o debug_recursive_bar_last(child, root, prefix)
               ELSE IF i < children_len - 1
               THEN <<"\n">> \o prefix \o <<Tee>>
                    \o debug_recursive_bar_last(child, FALSE, Append(prefix, Bar))
               ELSE <<"\n">> \o prefix \o <<Corner>>
                    \o debug_recursive_bar_last(child, FALSE, Append(prefix, Bar))
        loop[n \in 0..children_len] ==
            IF n = 0 THEN <<>> ELSE loop[n - 1] \o body(n - 1)
    IN debug(self) \o loop[children_len]

RECURSIVE debug_recursive_root_child_only(_, _, _)
\* debug_recursive flattening the child of the root and nothing below it
debug_recursive_root_child_only(self, root, prefix) ==
    LET children == self.children
        children_len == Len(children)
        body(i) ==
            LET child == children[i + 1]
                child_children_len == Len(child.children)
            IN IF root /\ children_len = 1 /\ child_children_len = 1
               THEN <<"\n">> \o prefix \o <<Tee>>
                    \o debug_recursive_root_child_only(child, FALSE, prefix)
               ELSE IF i < children_len - 1
               THEN <<"\n">> \o prefix \o <<Tee>>
                    \o debug_recursive_root_child_only(child, FALSE, Append(prefix, Bar))
               ELSE <<"\n">> \o prefix \o <<Corner>>
                    \o debug_recursive_root_child_only(child, FALSE, Append(prefix, Blank))
        loop[n \in 0..children_len] ==
            IF n = 0 THEN <<>> ELSE loop[n - 1] \o body(n - 1)
    IN debug(self) \o loop[children_len]

RECURSIVE debug_recursive_reversed(_, _, _)
\* debug_recursive writing the children from the last to the first
debug_recursive_reversed(self, root, prefix) ==
    LET children == self.children
        children_len == Len(children)
        body(i) ==
            LET child == children[i + 1]
                child_children_len == Len(child.children)
            IN IF root /\ children_len = 1 /\ child_children_len = 1
               THEN <<"\n">> \o prefix \o <<Tee>>
                    \o debug_recursive_reversed(child, root, prefix)
               ELSE IF i < children_len - 1
               THEN <<"\n">> \o prefix \o <<Tee>>
                    \o debug_recursive_reversed(child, FALSE, Append(prefix, Bar))
               ELSE <<"\n">> \o prefix \o <<Corner>>
                    \o debug_recursive_reversed(child, FALSE, Append(prefix, Blank))
        loop[n \in 0..children_len] ==
            IF n = 0 THEN <<>> ELSE body(n - 1) \o loop[n - 1]
    IN debug(self) \o loop[children_len]

RECURSIVE debug_recursive(_, _, _)
\* Frame::debug_recursive; prefix is the sequence of pieces of the prefix
debug_recursive(self, root, prefix) ==
    LET children == self.children
        children_len == Len(children)
        \* the body of the loop for the child at (0-based) index i
        body(i) ==
            LET child == children[i + 1]
                child_children_len == Len(child.children)
            IN IF root /\ children_len = 1 /\ child_children_len = 1
               THEN <<"\n">> \o prefix \o <<Tee>>
                    \o debug_recursive(child, root, prefix)
               ELSE IF i < children_len - 1
               THEN <<"\n">> \o prefix \o <<Tee>>
                    \o debug_recursive(child, FALSE, Append(prefix, Bar))
               ELSE <<"\n">> \o prefix \o <<Corner>>
                    \o debug_recursive(child, FALSE, Append(prefix, Blank))
        loop[n \in 0..children_len] ==
            IF n = 0 THEN <<>> ELSE loop[n - 1] \o body(n - 1)
    IN debug(self) \o loop[children_len]

\* Frame::debug_full
debug_full(self) == debug_recursive(self, TRUE, <<>>)

\* Debug of a boxed error value (derived by the client; SourceError prints
\* its string quoted)
DebugError(error) ==
    IF TypeOf(error) = "SourceError" THEN <<"\"", to_string(error), "\"">>
    ELSE <<TypeOf(error), "(", to_string(error), ")">>

\* Debug of a Location
DebugLocation(location) ==
    <<"Location", "{", "file", ":", location.file, ",", "line", ":",
      ToString(location.line), ",", "column", ":", ToString(location.column), "}">>

RECURSIVE DebugFrame(_, _)
\* impl Debug for Frame; the alternate form is the field-by-field dump
\* (its pieces without the pretty printer's line breaks and indentation)
DebugFrame(self, alternate) ==
    IF alternate
    THEN LET list[n \in 0..Len(self.children)] ==
                 IF n = 0 THEN <<>>
                 ELSE list[n - 1] \o DebugFrame(self.children[n], alternate) \o <<",">>
         IN <<"Frame", "{", "error", ":">> \o DebugError(self.error)
            \o <<",", "location", ":">> \o DebugLocation(self.location)
            \o <<",", "children", ":", "[">> \o list[Len(self.children)]
            \o <<"]", ",", "}">>
    ELSE debug(self)

\* impl Debug for Exn<E>
DebugExn(self, alternate) ==
    IF alternate
    THEN <<"Exn", "{", "frame", ":">> \o DebugFrame(self.frame, alternate)
         \o <<",", "..", "}">>
    ELSE debug_full(self.frame)

\* impl Error for Frame: source
FrameSource(self) ==
    IF self.children = <<>> THEN None ELSE Some(self.children[1])

(***************************************************************************)
(* The representations and ExnAny.                                         *)
(***************************************************************************)
\* Tree, List, and Anyhow<R> over either
Reprs == {"Tree", "List", "Anyhow<Tree>", "Anyhow<List>"}

\* The R of Anyhow<R>
Inner(T) == IF T = "Anyhow<Tree>" THEN "Tree" ELSE "List"

\* impl From<Exn<T>> for TreeExn<T>
TreeExnFrom(exn) == [impl |-> "TreeExn", exn |-> exn]

RECURSIVE ListFrameFrom_last(_)
\* From<Frame> for ListFrame keeping the last child instead of the first
ListFrameFrom_last(frame) ==
    [error |-> frame.error,
     location |-> frame.location,
     source |-> IF frame.children = <<>> THEN None
                ELSE Some(ListFrameFrom_last(frame.children[Len(frame.children)]))]

\* From<Frame> for ListFrame converting the first child without its own
\* first child
ListFrameFrom_shallow(frame) ==
    [error |-> frame.error,
     location |-> frame.location,
     source |-> IF frame.children = <<>> THEN None
                ELSE Some([error |-> frame.children[1].error,
                           location |-> frame.children[1].location,
                           source |-> None])]

RECURSIVE ListFrameFrom(_)
\* impl From<Frame> for ListFrame
ListFrameFrom(frame) ==
    [error |-> frame.error,
     location |-> frame.location,
     source |-> IF frame.children = <<>> THEN None
                ELSE Some(ListFrameFrom(frame.children[1]))]

\* impl From<Exn<T>> for ListExn<T>
ListExnFrom(exn) ==
    [impl |-> "ListExn", frame |-> ListFrameFrom(exn.frame), t |-> exn.phantom]

\* impl From<Exn<T>> for AnyhowExn<U>; inner is U::from(exn)
AnyhowExnFrom(inner) == [impl |-> "AnyhowExn", inner |-> inner]

\* T::Impl::<E>::from(exn) for the representation T
ImplFrom(exn, T) ==
    IF T = "Tree" THEN TreeExnFrom(exn)
    ELSE IF T = "List" THEN ListExnFrom(exn)
    ELSE AnyhowExnFrom(IF Inner(T) = "Tree" THEN TreeExnFrom(exn)
                       ELSE ListExnFrom(exn))

\* impl From<Exn<E>> for ExnAny<T>
ExnAnyFrom(exn, T) == [error |-> ImplFrom(exn, T), repr |-> T]

RECURSIVE DebugListFrame(_, _)
\* impl Debug for ListFrame
DebugListFrame(self, alternate) ==
    IF alternate
    THEN <<"ListFrame", "{", "error", ":">> \o DebugError(self.error)
         \o <<",", "location", ":">> \o DebugLocation(self.location)
         \o <<",", "source", ":">>
         \o (IF self.source = None THEN <<"None">>
             ELSE <<"Some", "(">> \o DebugListFrame(self.source[1], alternate)
                  \o <<",", ")">>)
         \o <<",", "}">>
    ELSE <<to_string(self.error), ", at ", self.location.file, ":",
           ToString(self.location.line), ":", ToString(self.location.column)>>

\* impl Debug for ListExn<T>
DebugListExn(self, alternate) ==
    IF alternate
    THEN <<"ListExn", "{", "frame", ":">> \o DebugListFrame(self.frame, alternate)
         \o <<",", "..", "}">>
    ELSE DebugListFrame(self.frame, alternate)

\* Debug of TreeExn showing the root frame only
DebugTreeExn_frame_only(self, alternate) == DebugFrame(self.exn.frame, alternate)

\* impl Debug for TreeExn<T>
DebugTreeExn(self, alternate) == DebugExn(self.exn, alternate)

RECURSIVE DebugDyn(_, _)
\* impl Debug for AnyhowExn<T>
DebugAnyhowExn(self, alternate) == DebugDyn(self.inner, alternate)

\* Debug::fmt through the vtable of a boxed wrapper
DebugDyn(self, alternate) ==
    IF self.impl = "TreeExn" THEN DebugTreeExn(self, alternate)
    ELSE IF self.impl = "ListExn" THEN DebugListExn(self, alternate)
    ELSE DebugAnyhowExn(self, alternate)

\* impl Debug for ExnAny<T>: Debug of the boxed wrapper
DebugExnAny(self, alternate) == DebugDyn(self.error, alternate)

\* impl Display for Exn<E>: Display of the dereferenced error
DisplayExn(self) == <<to_string(Deref(self))>>

\* impl Display for TreeExn<T>
DisplayTreeExn(self) == DisplayExn(self.exn)

\* impl Display for ListFrame
DisplayListFrame(self) == <<to_string(self.error)>>

\* impl Display for ListExn<T>
DisplayListExn(self) == DisplayListFrame(self.frame)

RECURSIVE DisplayDyn(_, _)
\* Display of AnyhowExn delegating to Display of what it wraps
DisplayAnyhowExn_display(self, alternate) == DisplayDyn(self.inner, alternate)

\* impl Display for AnyhowExn<T>: Debug::fmt of what it wraps, with the
\* formatter it was given
DisplayAnyhowExn(self, alternate) == DebugDyn(self.inner, alternate)

\* Display::fmt through the vtable of a boxed wrapper
DisplayDyn(self, alternate) ==
    IF self.impl = "TreeExn" THEN DisplayTreeExn(self)
    ELSE IF self.impl = "ListExn" THEN DisplayListExn(self)
    ELSE DisplayAnyhowExn(self, alternate)

\* impl Display for ExnAny<T>: Display of the boxed wrapper
DisplayExnAny(self, alternate) == DisplayDyn(self.error, alternate)

\* impl Error for ListFrame: source
ListFrameSource(self) == self.source

\* impl Error for ListExn<T>: source
ListExnSource(self) == ListFrameSource(self.frame)

RECURSIVE SourceDyn_tree_first_child(_)
\* Error::source with TreeExn reporting what its root frame reports
SourceDyn_tree_first_child(self) ==
    IF self.impl = "TreeExn" THEN FrameSource(self.exn.frame)
    ELSE IF self.impl = "ListExn" THEN ListExnSource(self)
    ELSE SourceDyn_tree_first_child(self.inner)

RECURSIVE SourceDyn(_)
\* impl Error for AnyhowExn<T>: source
AnyhowExnSource(self) == SourceDyn(self.inner)

\* Error::source through the vtable of a boxed wrapper (TreeExn keeps the
\* trait's default)
SourceDyn(self) ==
    IF self.impl = "TreeExn" THEN None
    ELSE IF self.impl = "ListExn" THEN ListExnSource(self)
    ELSE AnyhowExnSource(self)

\* impl Error for ExnAny<T>: source of the boxed wrapper
ExnAnySource(self) == SourceDyn(self.error)

(***************************************************************************)
(* tests/generate/mod.rs                                                   *)
(***************************************************************************)
\* struct Error(&'static str) of the tests
TestError(msg) == <<[ty |-> "Error", msg |-> msg]>>

\* a call site in tests/generate/mod.rs
At(line, column) == [file |-> "tests/generate/mod.rs", line |-> line, column |-> column]

\* fn tree<T>()
generate_tree(T) ==
    LET e1 == New(TestError("E1"), At(28, 26), 1)
        e3 == raise(e1, TestError("E3"), At(29, 17), 2)
        e9 == New(TestError("E9"), At(31, 26), 3)
        e10 == raise(e9, TestError("E10"), At(32, 18), 4)
        e11 == New(TestError("E11"), At(34, 28), 5)
        e12 == raise(e11, TestError("E12"), At(35, 19), 6)
        e5 == raise_all(<<e3, e10, e12>>, TestError("E5"), At(37, 14), 7)
        e2 == New(TestError("E2"), At(39, 26), 8)
        e4 == raise(e2, TestError("E4"), At(40, 17), 9)
        e7 == New(TestError("E7"), At(42, 26), 10)
        e8 == raise(e7, TestError("E8"), At(43, 17), 11)
        e6 == raise_all(<<e5, e4, e8>>, TestError("E6"), At(45, 9), 12)
    IN [from |-> e6, value |-> ExnAnyFrom(e6, T)]

\* fn list<T>()
generate_list(T) ==
    LET e1 == New(TestError("E1"), At(53, 26), 1)
        e2 == raise(e1, TestError("E2"), At(54, 17), 2)
        e3 == raise(e2, TestError("E3"), At(55, 17), 3)
        e4 == raise(e3, TestError("E4"), At(56, 17), 4)
        e5 == raise(e4, TestError("E5"), At(57, 12), 5)
    IN [from |-> e5, value |-> ExnAnyFrom(e5, T)]

(***************************************************************************)
(* Sequences of distinct handles drawn from the pool.                      *)
(***************************************************************************)
Range(s) == {s[i] : i \in DOMAIN s}

Injective(s) == \A i, j \in DOMAIN s : s[i] = s[j] => i = j

HandleSeqs(S) ==
    {s \in UNION {[1..n -> S] : n \in 0..Cardinality(S)} : Injective(s)}

(***************************************************************************)
(* The operations.  The client builds trees while it runs (any = None) and *)
(* ends by converting one handle into an ExnAny, dropping the others.      *)
(***************************************************************************)
Init ==
    /\ pool = {}
    /\ nextId = 1
    /\ any = None
    /\ last = [op |-> "init"]

Fits(n) == nextId + n - 1 <= MaxFrames

\* Exn::new(error), which ErrorExt::raise (error.raise()) calls as is
DoNew(error, location) ==
    /\ any = None
    /\ Fits(Allocated(error))
    /\ LET exn == New(error, location, nextId)
       IN /\ pool' = pool \cup {exn}
          /\ last' = [op |-> "new", error |-> error, location |-> location,
                      inputs |-> <<>>, result |-> exn]
    /\ nextId' = nextId + Allocated(error)
    /\ UNCHANGED any

DoRaise(self, error, location) ==
    /\ any = None
    /\ Fits(Allocated(error))
    /\ LET exn == raise(self, error, location, nextId)
       IN /\ pool' = (pool \ {self}) \cup {exn}
          /\ last' = [op |-> "raise", error |-> error, location |-> location,
                      inputs |-> <<self>>, result |-> exn]
    /\ nextId' = nextId + Allocated(error)
    /\ UNCHANGED any

\* Exn::raise_all over handles the client holds (items that are already
\* Exn<T>, for which into() is the identity)
DoRaiseAll(children, error, location) ==
    /\ any = None
    /\ Fits(Allocated(error))
    \* I::Item: Into<Exn<T>> for one T
    /\ \A i, j \in DOMAIN children : children[i].phantom = children[j].phantom
    /\ LET exn == raise_all(children, error, location, nextId)
       IN /\ pool' = (pool \ Range(children)) \cup {exn}
          /\ last' = [op |-> "raise_all", error |-> error, location |-> location,
                      inputs |-> children, result |-> exn]
    /\ nextId' = nextId + Allocated(error)
    /\ UNCHANGED any

DoFrom(error, E, location) ==
    /\ any = None
    /\ Fits(Allocated(error))
    /\ LET exn == FromError(error, E, location, nextId)
       IN /\ pool' = pool \cup {exn}
          /\ last' = [op |-> "from", error |-> error, location |-> location,
                      inputs |-> <<>>, result |-> exn]
    /\ nextId' = nextId + Allocated(error)
    /\ UNCHANGED any

\* or_raise on a Result<T, E>: e is the plain error of an Err
DoOrRaiseError(self, err, B, location) ==
    /\ any = None
    /\ LET n == IF self.ok THEN 0 ELSE Allocated(self.err) + Allocated(err)
           res == or_raise_error(self, err, B, location, nextId)
       IN /\ Fits(n)
          /\ pool' = IF self.ok THEN pool ELSE pool \cup {res.err}
          /\ last' = IF self.ok
                      THEN [op |-> "or_raise", self |-> self, called |-> 0, result |-> res]
                      ELSE [op |-> "or_raise", self |-> self, called |-> 1, result |-> res,
                            error |-> err, location |-> location]
          /\ nextId' = nextId + n
    /\ UNCHANGED any

\* or_raise on a Result<T, Exn<E>>
DoOrRaiseExn(self, err, B, location) ==
    /\ any = None
    /\ LET n == IF self.ok THEN 0 ELSE Allocated(err)
           res == or_raise_exn(self, err, B, location, nextId)
       IN /\ Fits(n)
          /\ pool' = IF self.ok THEN pool ELSE (pool \ {self.err}) \cup {res.err}
          /\ last' = IF self.ok
                      THEN [op |-> "or_raise_exn", self |-> self, called |-> 0, result |-> res]
                      ELSE [op |-> "or_raise_exn", self |-> self, called |-> 1, result |-> res,
                            error |-> err, location |-> location]
          /\ nextId' = nextId + n
    /\ UNCHANGED any

DoOkOrRaise(self, err, B, location) ==
    /\ any = None
    /\ LET n == IF self # None THEN 0 ELSE Allocated(err)
           res == ok_or_raise(self, err, B, location, nextId)
       IN /\ Fits(n)
          /\ pool' = IF res.ok THEN pool ELSE pool \cup {res.err}
          /\ last' = IF self # None
                      THEN [op |-> "ok_or_raise", self |-> self, called |-> 0,
                            result |-> res]
                      ELSE [op |-> "ok_or_raise", self |-> self, called |-> 1,
                            result |-> res, error |-> err, location |-> location]
          /\ nextId' = nextId + n
    /\ UNCHANGED any

\* bail!(err) in a function returning Result<_, E>
DoBail(err, E, location) ==
    /\ any = None
    /\ Fits(Allocated(err))
    /\ LET r == bail(err, E, location, nextId)
       IN /\ pool' = pool \cup {r[1].err}
          /\ last' = [op |-> "bail", error |-> err, location |-> location,
                      returned |-> r]
    /\ nextId' = nextId + Allocated(err)
    /\ UNCHANGED any

\* ensure!(cond, err) in a function returning Result<_, E>
DoEnsure(cond, err, E, location) ==
    /\ any = None
    /\ LET r == ensure(cond, err, E, location, nextId)
           n == IF r = None THEN 0 ELSE Allocated(err)
       IN /\ Fits(n)
          /\ pool' = IF r = None THEN pool ELSE pool \cup {r[1].err}
          /\ last' = IF r = None
                      THEN [op |-> "ensure", cond |-> cond, returned |-> r]
                      ELSE [op |-> "ensure", cond |-> cond, returned |-> r,
                            error |-> err, location |-> location]
          /\ nextId' = nextId + n
    /\ UNCHANGED any

\* iter.collect_all() over the items of a Vec of Results
DoCollectAll(items) ==
    /\ any = None
    /\ LET res == collect_all([items |-> items, pos |-> 1])
       IN last' = [op |-> "collect_all", self |-> items, result |-> res.result,
                   consumed |-> res.iter.pos - 1]
    /\ UNCHANGED <<pool, nextId, any>>

\* {:?} / {:#?} of a live handle
DoDebugExn(self, alternate) ==
    /\ any = None
    /\ last' = [op |-> "debug_exn", self |-> self, alternate |-> alternate,
                text |-> DebugExn(self, alternate)]
    /\ UNCHANGED <<pool, nextId, any>>

\* exn.into() at the application's error boundary
DoIntoAny(exn, T) ==
    /\ any = None
    /\ any' = Some([from |-> exn, value |-> ExnAnyFrom(exn, T)])
    /\ pool' = {}
    /\ last' = [op |-> "into_any", inputs |-> <<exn>>, repr |-> T]
    /\ UNCHANGED nextId

\* the tests' generators, run by a fresh process
DoGenerateTree(T) ==
    /\ any = None /\ pool = {} /\ nextId = 1
    /\ any' = Some(generate_tree(T))
    /\ nextId' = 13
    /\ last' = [op |-> "generate::tree", repr |-> T]
    /\ UNCHANGED pool

DoGenerateList(T) ==
    /\ any = None /\ pool = {} /\ nextId = 1
    /\ any' = Some(generate_list(T))
    /\ nextId' = 6
    /\ last' = [op |-> "generate::list", repr |-> T]
    /\ UNCHANGED pool

\* {:?} / {:#?} of the ExnAny
DoDebugAny(alternate) ==
    /\ any # None
    /\ last' = [op |-> "debug_any", alternate |-> alternate,
                text |-> DebugExnAny(any[1].value, alternate)]
    /\ UNCHANGED <<pool, nextId, any>>

\* {} / {:#} of the ExnAny
DoDisplayAny(alternate) ==
    /\ any # None
    /\ last' = [op |-> "display_any", alternate |-> alternate,
                text |-> DisplayExnAny(any[1].value, alternate)]
    /\ UNCHANGED <<pool, nextId, any>>

\* exn.frame().source(): Error::source of the root Frame of a live handle
DoSourceFrame(self) ==
    /\ any = None
    /\ last' = [op |-> "source_frame", self |-> self,
                result |-> FrameSource(self.frame)]
    /\ UNCHANGED <<pool, nextId, any>>

\* Error::source of the ExnAny
DoSourceAny ==
    /\ any # None
    /\ last' = [op |-> "source_any", result |-> ExnAnySource(any[1].value)]
    /\ UNCHANGED <<pool, nextId, any>>

Results(S) == {Ok(t) : t \in Values} \cup {Err(e) : e \in S}

\* The conversions the client defines: T: Into<E> holds for these <<T, E>>
ClientInto == {<<"A", "A">>, <<"B", "B">>, <<"A", "B">>}

\* The core: construction, merging, rendering and erasure.
Next ==
    \/ \E error \in Errors(nextId), location \in Locations : DoNew(error, location)
    \/ \E self \in pool, error \in Errors(nextId), location \in Locations :
          DoRaise(self, error, location)
    \/ \E children \in HandleSeqs(pool), error \in Errors(nextId), location \in Locations :
          DoRaiseAll(children, error, location)
    \/ \E self \in pool, alternate \in BOOLEAN : DoDebugExn(self, alternate)
    \/ \E exn \in pool, T \in Reprs : DoIntoAny(exn, T)
    \/ \E T \in Reprs : DoGenerateTree(T)
    \/ \E T \in Reprs : DoGenerateList(T)
    \/ \E alternate \in BOOLEAN : DoDebugAny(alternate)
    \/ \E alternate \in BOOLEAN : DoDisplayAny(alternate)
    \/ \E self \in pool : DoSourceFrame(self)
    \/ DoSourceAny

Spec == Init /\ [][Next]_vars

\* Every public operation that constructs an Exn: the core's constructors
\* and the adapters built on them.
NextExt ==
    /\ \/ \E error \in Errors(nextId), location \in Locations : DoNew(error, location)
       \/ \E self \in pool, error \in Errors(nextId), location \in Locations :
             DoRaise(self, error, location)
       \/ \E children \in HandleSeqs(pool), error \in Errors(nextId), location \in Locations :
             DoRaiseAll(children, error, location)
       \/ \E error \in Errors(nextId), E \in Types, location \in Locations :
             /\ <<TypeOf(error), E>> \in ClientInto
             /\ DoFrom(error, E, location)
       \/ \E self \in Results(Errors(nextId)), location \in Locations :
             \E err \in Errors(nextId + IF self.ok THEN 0 ELSE Allocated(self.err)) :
                DoOrRaiseError(self, err, TypeOf(err), location)
       \/ \E self \in Results(pool), err \in Errors(nextId), location \in Locations :
             DoOrRaiseExn(self, err, TypeOf(err), location)
       \/ \E self \in {None} \cup {Some(t) : t \in Values}, err \in Errors(nextId),
             location \in Locations : DoOkOrRaise(self, err, TypeOf(err), location)
       \/ \E err \in Errors(nextId), E \in Types, location \in Locations :
             /\ <<TypeOf(err), E>> \in ClientInto
             /\ DoBail(err, E, location)
       \/ \E cond \in BOOLEAN, err \in Errors(nextId), E \in Types,
             location \in Locations :
             /\ <<TypeOf(err), E>> \in ClientInto
             /\ DoEnsure(cond, err, E, location)
    /\ nextId' <= MaxExtFrames + 1

SpecExt == Init /\ [][NextExt]_vars

\* The sequences of at most n elements of S
SeqsUpTo(S, n) == UNION {[1..k -> S] : k \in 0..n}

\* The reducer on its own: every iterator of at most MaxItems results.
NextIter ==
    \E items \in SeqsUpTo(Results(Payloads), MaxItems) : DoCollectAll(items)

SpecIter == Init /\ [][NextIter]_vars

(***************************************************************************)
(* Vocabulary of the properties.                                           *)
(***************************************************************************)
\* The operations that return a new root built over input handles
Merging == {"raise", "raise_all"}

\* The children the importer made: frames holding the private SourceError
Imported(frame) ==
    SelectSeq(frame.children, LAMBDA c : TypeOf(c.error) = "SourceError")

\* The links of the native source chain of an error
NativeLen(error) == Len(error) - 1

RECURSIVE IdsOf(_)
\* The identities of the frames of a tree, in depth-first pre-order
IdsOf(frame) ==
    LET below[n \in 0..Len(frame.children)] ==
            IF n = 0 THEN <<>> ELSE below[n - 1] \o IdsOf(frame.children[n])
    IN <<frame.id>> \o below[Len(frame.children)]

\* How often the frame `id` occurs in the trees of the live handles
Occurrences(id) ==
    LET in(h) == Cardinality({i \in DOMAIN IdsOf(h.frame) : IdsOf(h.frame)[i] = id})
        RECURSIVE sum(_)
        sum(S) == IF S = {} THEN 0
                  ELSE LET h == CHOOSE h \in S : TRUE IN in(h) + sum(S \ {h})
    IN sum(pool)

RECURSIVE LocationsOf(_)
\* The locations of the frames of a tree, in depth-first pre-order
LocationsOf(frame) ==
    LET below[n \in 0..Len(frame.children)] ==
            IF n = 0 THEN <<>> ELSE below[n - 1] \o LocationsOf(frame.children[n])
    IN <<frame.location>> \o below[Len(frame.children)]

(***************************************************************************)
(* C1                                                                      *)
(***************************************************************************)
\* C1: after raise_all(inputs, X) the new root's children are the frames the
\* importer made from X's source chain followed by the inputs' roots in the
\* order given; with no inputs the result is the tree of Exn::new(X).
C1_RaiseAllOrder ==
    last.op = "raise_all" =>
        LET root == last.result.frame
            n == Len(last.inputs)
            k == IF NativeLen(last.error) > 0 THEN 1 ELSE 0
        IN /\ root.error = last.error
           /\ Len(root.children) = k + n
           /\ SubSeq(root.children, 1, k) = Imported(root)
           /\ \A i \in 1..n : root.children[k + i] = last.inputs[i].frame
           /\ n = 0 => last.result = New(last.error, last.location, root.id)

\* raise_all of two handles under an error that has a native source
C1_Witness ==
    /\ last.op = "raise_all"
    /\ Len(last.inputs) = 2
    /\ NativeLen(last.error) > 0

(***************************************************************************)
(* C2                                                                      *)
(***************************************************************************)
\* C2: e.raise(X) consumes e; the new root holds X and its children are the
\* importer's children for X followed by e's former root as the last child.
C2_RaiseAppends ==
    last.op = "raise" =>
        LET root == last.result.frame
            k == IF NativeLen(last.error) > 0 THEN 1 ELSE 0
        IN /\ root.error = last.error
           /\ Len(root.children) = k + 1
           /\ SubSeq(root.children, 1, k) = Imported(root)
           /\ root.children[k + 1] = last.inputs[1].frame
           /\ last.inputs[1] \notin pool
           /\ last.result \in pool

\* a raise with an error that has a native source
C2_Witness ==
    /\ last.op = "raise"
    /\ NativeLen(last.error) > 0

(***************************************************************************)
(* C3                                                                      *)
(***************************************************************************)
\* C3: no cause is lost: each input's whole sub-tree is a child of the new
\* root, unchanged, and while the client builds trees every frame allocated
\* so far occurs exactly once in the trees of the live handles.
C3_NoCauseLost ==
    /\ last.op \in Merging =>
          \A i \in DOMAIN last.inputs :
             \E j \in DOMAIN last.result.frame.children :
                last.result.frame.children[j] = last.inputs[i].frame
    /\ any = None => \A id \in 1..(nextId - 1) : Occurrences(id) = 1

\* two trees merged, one of which has a cause of its own
C3_Witness ==
    /\ last.op = "raise_all"
    /\ Len(last.inputs) = 2
    /\ \E i \in 1..2 : last.inputs[i].frame.children # <<>>

(***************************************************************************)
(* C4                                                                      *)
(***************************************************************************)
\* C4: the root made by raise records the call site of the raise, and the
\* wrapped frame and its descendants keep the locations they had.
C4_RaiseLocation ==
    last.op = "raise" =>
        LET root == last.result.frame
        IN /\ root.location = last.location
           /\ LocationsOf(root.children[Len(root.children)])
                 = LocationsOf(last.inputs[1].frame)

\* a raise called somewhere else than where the wrapped error was captured
C4_Witness ==
    /\ last.op = "raise"
    /\ last.location # last.inputs[1].frame.location

(***************************************************************************)
(* C5                                                                      *)
(***************************************************************************)
\* C5: for every Exn<E> any public operation has built, the root's error is
\* of type E, so Deref never reaches its unreachable branch; raise and
\* raise_all put the given error in the new root and replace no frame's error.
C5_DowncastSound ==
    /\ \A exn \in pool :
          /\ Deref(exn) # Unreachable
          /\ Deref(exn) = exn.frame.error
    /\ last.op \in Merging =>
          /\ last.result.frame.error = last.error
          /\ \A i \in DOMAIN last.inputs :
                \E j \in DOMAIN last.result.frame.children :
                   last.result.frame.children[j] = last.inputs[i].frame

\* a handle of type B made from an error of type A by From
C5_Witness ==
    /\ last.op = "from"
    /\ TypeOf(last.error) # last.result.phantom
    /\ last.result \in pool

(***************************************************************************)
(* C6                                                                      *)
(***************************************************************************)
RECURSIVE ChainTexts(_)
\* The texts down a chain of single children; a level that does not hold
\* exactly one frame ends the walk with a marker no error text equals.
ChainTexts(children) ==
    IF children = <<>> THEN <<>>
    ELSE IF Len(children) # 1 THEN <<"<branch>">>
    ELSE <<debug(children[1])[1]>> \o ChainTexts(children[1].children)

\* C6: Exn::new on an error whose native source chain has n links gives a
\* root whose children form a chain of exactly n single frames, the k-th
\* showing the text of the k-th link.
C6_ImporterLinear ==
    last.op = "new" =>
        ChainTexts(last.result.frame.children)
           = [k \in 1..NativeLen(last.error) |-> last.error[k + 1].msg]

\* Exn::new on an error with the longest native chain
C6_Witness ==
    /\ last.op = "new"
    /\ NativeLen(last.error) = MaxSrc

(***************************************************************************)
(* Reading a rendering: its lines, and on each line the prefix, the        *)
(* connector and the message.                                              *)
(***************************************************************************)
RECURSIVE Lines(_)
\* The pieces of each line of a text
Lines(text) ==
    IF \A i \in DOMAIN text : text[i] # "\n" THEN <<text>>
    ELSE LET i == CHOOSE i \in DOMAIN text :
                     /\ text[i] = "\n"
                     /\ \A j \in 1..(i - 1) : text[j] # "\n"
         IN <<SubSeq(text, 1, i - 1)>> \o Lines(SubSeq(text, i + 1, Len(text)))

\* Frame::debug writes this many pieces
DebugPieces == Len(debug([error |-> <<[ty |-> "A", msg |-> "E"]>>,
                          location |-> [file |-> "f", line |-> 1, column |-> 1]]))

\* A line is: prefix pieces, one connector, the pieces of Frame::debug; the
\* first line has no prefix and no connector.
LineOf(line) ==
    LET h == Len(line) - DebugPieces
    IN [prefix |-> IF h = 0 THEN <<>> ELSE SubSeq(line, 1, h - 1),
        connector |-> IF h = 0 THEN "" ELSE line[h],
        msg |-> line[h + 1]]

Shape(text) == [i \in DOMAIN Lines(text) |-> LineOf(Lines(text)[i])]

\* A rendering through Debug, not alternate, of a handle (debug_exn) or of
\* an ExnAny with the Tree representation (debug_any), and the tree rendered
FullRendering ==
    /\ last.op \in {"debug_exn", "debug_any"}
    /\ ~last.alternate
    /\ last.op = "debug_any" => any[1].value.repr = "Tree"

Rendered == IF last.op = "debug_exn" THEN last.self.frame ELSE any[1].from.frame

RECURSIVE IsRaiseChain(_)
\* A tree built from one origin by raise alone: no frame has two children
\* and none is imported
IsRaiseChain(frame) ==
    /\ TypeOf(frame.error) # "SourceError"
    /\ Len(frame.children) <= 1
    /\ \A i \in DOMAIN frame.children : IsRaiseChain(frame.children[i])

(***************************************************************************)
(* C7                                                                      *)
(***************************************************************************)
\* C7: the full rendering of a chain built by consecutive raise calls on one
\* origin (in particular by four of them: five frames) has one line per
\* frame, and every line but the first has the empty prefix and a connector:
\* no line is indented deeper than another.
C7_NoStaircase ==
    (FullRendering /\ IsRaiseChain(Rendered)) =>
        LET shape == Shape(last.text)
        IN /\ Len(shape) = Len(IdsOf(Rendered))
           /\ \A i \in 2..Len(shape) :
                 /\ shape[i].prefix = <<>>
                 /\ shape[i].connector \in {Tee, Corner}

\* the rendering of the chain of generate::list: E5 over E4, E3, E2, E1
C7_Witness ==
    /\ FullRendering
    /\ any # None
    /\ any[1] = generate_list("Tree")
    /\ IsRaiseChain(Rendered)
    /\ [i \in 1..5 |-> Shape(last.text)[i].msg] = <<"E5", "E4", "E3", "E2", "E1">>

(***************************************************************************)
(* C8                                                                      *)
(***************************************************************************)
TreeLine(prefix, connector, msg) ==
    [prefix |-> prefix, connector |-> connector, msg |-> msg]

\* C8: the full rendering of the tree of generate::tree shows E6 at depth 0,
\* E5, E4, E8 below it (E5 and E4 with the continuing-branch connector, E8
\* with the final-branch one), E3, E10, E12 one level further under E5, and
\* E1, E9, E11, E2, E7 each right after and one level below its parent.
C8_TreeScenario ==
    (FullRendering /\ any # None /\ any[1] = generate_tree("Tree")) =>
        Shape(last.text) =
            <<TreeLine(<<>>, "", "E6"),
              TreeLine(<<>>, Tee, "E5"),
              TreeLine(<<Bar>>, Tee, "E3"),
              TreeLine(<<Bar, Bar>>, Corner, "E1"),
              TreeLine(<<Bar>>, Tee, "E10"),
              TreeLine(<<Bar, Bar>>, Corner, "E9"),
              TreeLine(<<Bar>>, Corner, "E12"),
              TreeLine(<<Bar, Blank>>, Corner, "E11"),
              TreeLine(<<>>, Tee, "E4"),
              TreeLine(<<Bar>>, Corner, "E2"),
              TreeLine(<<>>, Corner, "E8"),
              TreeLine(<<Blank>>, Corner, "E7")>>

\* the tree of generate::tree has been rendered through ExnAny<Tree>
C8_Witness ==
    /\ FullRendering
    /\ any # None
    /\ any[1] = generate_tree("Tree")
    /\ Len(Shape(last.text)) = 12

(***************************************************************************)
(* C9                                                                      *)
(***************************************************************************)
\* C9: Debug of the ExnAny<Tree> made from a handle writes what Debug of
\* that handle writes: the full rendering of the whole tree.
C9_TreeReprSameDebug ==
    (last.op = "debug_any" /\ any[1].value.repr = "Tree") =>
        /\ last.text = DebugExn(any[1].from, last.alternate)
        /\ ~last.alternate => Len(Lines(last.text)) = Len(IdsOf(any[1].from.frame))

\* the ExnAny<Tree> of a tree with two merged siblings has been rendered
C9_Witness ==
    /\ last.op = "debug_any"
    /\ ~last.alternate
    /\ any[1].value.repr = "Tree"
    /\ Len(any[1].from.frame.children) >= 2
    /\ Len(Imported(any[1].from.frame)) = 0

(***************************************************************************)
(* C10                                                                     *)
(***************************************************************************)
\* The handle converted is raise_all([a, b], X): two children besides the
\* imported ones
MergedTwo == any # None /\ Len(any[1].from.frame.children)
                             = Len(Imported(any[1].from.frame)) + 2

\* a of raise_all([a, b], X)
FirstMerged ==
    any[1].from.frame.children[Len(Imported(any[1].from.frame)) + 1]

RECURSIVE FirstChildPath(_)
\* The error and location of each frame on the first-child path of a tree
FirstChildPath(frame) ==
    <<[error |-> frame.error, location |-> frame.location]>>
    \o (IF frame.children = <<>> THEN <<>> ELSE FirstChildPath(frame.children[1]))

RECURSIVE SourcePath(_)
\* The error and location of each link reached by following source()
SourcePath(link) ==
    <<[error |-> link.error, location |-> link.location]>>
    \o (IF ListFrameSource(link) = None THEN <<>>
        ELSE SourcePath(ListFrameSource(link)[1]))

\* C10 as stated: for raise_all([a, b], X) in the List representation the
\* single-node rendering is X's own line and source() is a's root.
C10_FirstSiblingWins ==
    /\ (MergedTwo /\ any[1].value.repr = "List"
           /\ last.op = "debug_any" /\ ~last.alternate) =>
          last.text = debug(any[1].from.frame)
    /\ (MergedTwo /\ any[1].value.repr = "List" /\ last.op = "source_any") =>
          /\ last.result # None
          /\ SourcePath(last.result[1]) = FirstChildPath(FirstMerged)

\* C10 amended: the single-node rendering is X's own line; source() is the
\* first child of the root: a's root when X has no native source chain, and
\* otherwise the frame imported from X's own source (then a is dropped too).
C10_FirstChildWins ==
    /\ (MergedTwo /\ any[1].value.repr = "List"
           /\ last.op = "debug_any" /\ ~last.alternate) =>
          last.text = debug(any[1].from.frame)
    /\ (MergedTwo /\ any[1].value.repr = "List" /\ last.op = "source_any") =>
          LET root == any[1].from.frame
              first == last.result[1]
          IN /\ last.result # None
             /\ SourcePath(first) = FirstChildPath(root.children[1])
             /\ Imported(root) = <<>> => root.children[1] = FirstMerged
             /\ Imported(root) # <<>> => TypeOf(first.error) = "SourceError"

\* source() asked of the List form of raise_all([a, b], X), X without source
C10_Witness ==
    /\ MergedTwo
    /\ any[1].value.repr = "List"
    /\ last.op = "source_any"
    /\ Imported(any[1].from.frame) = <<>>
    /\ any[1].from.frame.children[1].children # <<>>

(***************************************************************************)
(* C11                                                                     *)
(***************************************************************************)
\* The success values of the items, in order
OkValues(items) ==
    LET oks == SelectSeq(items, LAMBDA r : r.ok)
    IN [i \in 1..Len(oks) |-> oks[i].value]

\* The Err payloads of the items, in order
ErrPayloads(items) ==
    LET errs == SelectSeq(items, LAMBDA r : ~r.ok)
    IN [i \in 1..Len(errs) |-> errs[i].err]

\* C11: collect_all consumes every item; it returns Ok of all the success
\* values in order exactly when no item is Err, and otherwise Err of every
\* Err payload of the whole sequence in order.
C11_CollectAll ==
    last.op = "collect_all" =>
        /\ last.consumed = Len(last.self)
        /\ last.result.ok <=> ErrPayloads(last.self) = <<>>
        /\ last.result.ok => last.result.value = OkValues(last.self)
        /\ ~last.result.ok => last.result.err = ErrPayloads(last.self)

\* two different failures with a success between them
C11_Witness ==
    /\ last.op = "collect_all"
    /\ Len(last.self) = 3
    /\ ~last.self[1].ok /\ last.self[2].ok /\ ~last.self[3].ok
    /\ last.self[1].err # last.self[3].err
    /\ ~last.result.ok /\ Len(last.result.err) = 2

(***************************************************************************)
(* C12                                                                     *)
(***************************************************************************)
OrRaise == {"or_raise", "or_raise_exn"}

\* C12: or_raise on Ok returns the same value, does not call the closure
\* and allocates no frame; on Err it calls the closure once and returns an
\* Exn whose root holds the closure's error and whose last child is the
\* original failure: the root of the Exn given, or the frame newly built
\* from the plain error given.
C12_OrRaise ==
    [][last'.op \in OrRaise =>
          IF last'.self.ok
          THEN /\ last'.result = Ok(last'.self.value)
               /\ last'.called = 0
               /\ nextId' = nextId
               /\ pool' = pool
          ELSE LET root == last'.result.err.frame
                   original ==
                       IF last'.op = "or_raise_exn" THEN last'.self.err.frame
                       ELSE New(last'.self.err, last'.location, nextId).frame
               IN /\ ~last'.result.ok
                  /\ last'.called = 1
                  /\ root.error = last'.error
                  /\ root.children # <<>>
                  /\ root.children[Len(root.children)] = original
                  /\ last'.result.err \in pool']_vars

\* or_raise on an Err holding an Exn, the closure's error having a source
C12_Witness ==
    /\ last.op = "or_raise_exn"
    /\ ~last.self.ok
    /\ NativeLen(last.error) > 0
    /\ Len(last.result.err.frame.children) = 2

(***************************************************************************)
(* C13                                                                     *)
(***************************************************************************)
\* C13: ok_or_raise on Some(t) returns Ok(t) without calling the closure;
\* on None it calls the closure once and returns Err of Exn::new on the
\* closure's error: a tree whose only children are the imported ones,
\* located at the call site of ok_or_raise.
C13_OkOrRaise ==
    [][last'.op = "ok_or_raise" =>
          IF last'.self # None
          THEN /\ last'.result = Ok(last'.self[1])
               /\ last'.called = 0
               /\ nextId' = nextId
               /\ pool' = pool
          ELSE /\ ~last'.result.ok
               /\ last'.called = 1
               /\ last'.result.err = New(last'.error, last'.location, nextId)
               /\ last'.result.err.frame.location = last'.location
               /\ Imported(last'.result.err.frame) = last'.result.err.frame.children
               /\ pool' = pool \cup {last'.result.err}]_vars

\* ok_or_raise on None after a handle was built elsewhere
C13_Witness ==
    /\ last.op = "ok_or_raise"
    /\ last.self = None
    /\ ~last.result.ok
    /\ \E h \in pool : h # last.result.err /\ h.frame.location # last.location

(***************************************************************************)
(* C14                                                                     *)
(***************************************************************************)
\* C14: ensure!(cond, err) returns early with Err of the Exn built from err
\* exactly when cond is false; when cond is true no Exn is created and
\* execution continues.  bail!(err) always returns early with that Err.
C14_EnsureBail ==
    [][/\ last'.op = "ensure" =>
             IF last'.cond
             THEN /\ last'.returned = None
                  /\ nextId' = nextId
                  /\ pool' = pool
             ELSE /\ last'.returned # None
                  /\ ~last'.returned[1].ok
                  /\ Deref(last'.returned[1].err)
                        = Into(last'.error, last'.returned[1].err.phantom)
                  /\ last'.returned[1].err
                        = New(Deref(last'.returned[1].err), last'.location, nextId)
       /\ last'.op = "bail" =>
             /\ last'.returned # None
             /\ ~last'.returned[1].ok
             /\ Deref(last'.returned[1].err)
                   = Into(last'.error, last'.returned[1].err.phantom)
             /\ last'.returned[1].err
                   = New(Deref(last'.returned[1].err), last'.location, nextId)]_vars

\* ensure! with a false condition and an error converted on the way
C14_Witness ==
    /\ last.op = "ensure"
    /\ ~last.cond
    /\ last.returned # None
    /\ TypeOf(last.error) # last.returned[1].err.phantom

(***************************************************************************)
(* C15                                                                     *)
(***************************************************************************)
\* The ExnAny ended with has the representation Anyhow<R>
IsAnyhow == any # None /\ any[1].value.repr \in {"Anyhow<Tree>", "Anyhow<List>"}

\* C15: for Anyhow<R>, Display of the wrapper writes what Debug of R's
\* wrapper writes (the full tree for Tree, the root's line alone for List),
\* and so does its Debug.
C15_AnyhowDisplayIsDebug ==
    (IsAnyhow /\ last.op \in {"display_any", "debug_any"}) =>
        LET R == Inner(any[1].value.repr)
            from == any[1].from
        IN /\ last.text = DebugExnAny(ExnAnyFrom(from, R), last.alternate)
           /\ (~last.alternate /\ R = "Tree") => last.text = debug_full(from.frame)
           /\ (~last.alternate /\ R = "List") => last.text = debug(from.frame)

\* Display of Anyhow<Tree> over a tree of several frames
C15_Witness ==
    /\ IsAnyhow
    /\ any[1].value.repr = "Anyhow<Tree>"
    /\ last.op = "display_any"
    /\ ~last.alternate
    /\ Len(Lines(last.text)) >= 3

(***************************************************************************)
(* Frames by their path from the root: <<>> is the root, Append(p, i) the  *)
(* i-th child of the frame at p.                                           *)
(***************************************************************************)
RECURSIVE Paths(_)
\* The paths of the frames of a tree, in depth-first pre-order
Paths(frame) ==
    LET under(n) == [k \in 1..Len(Paths(frame.children[n])) |->
                         <<n>> \o Paths(frame.children[n])[k]]
        below[n \in 0..Len(frame.children)] ==
            IF n = 0 THEN <<>> ELSE below[n - 1] \o under(n)
    IN <<<<>>>> \o below[Len(frame.children)]

RECURSIVE NodeAt(_, _)
NodeAt(frame, path) ==
    IF path = <<>> THEN frame ELSE NodeAt(frame.children[path[1]], Tail(path))

Parent(path) == SubSeq(path, 1, Len(path) - 1)

IsLastChild(frame, path) ==
    path[Len(path)] = Len(NodeAt(frame, Parent(path)).children)

\* The frame at path is on the chain of only children that starts at the
\* root, and has exactly one child itself
OnRootChain(frame, path) ==
    /\ path # <<>>
    /\ \A j \in 0..Len(path) : Len(NodeAt(frame, SubSeq(path, 1, j)).children) = 1

\* The frame at path is the only child of the root and has exactly one child
UnderRootOnly(frame, path) == Len(path) = 1 /\ OnRootChain(frame, path)

\* The connector of a child by its position among its siblings
BranchConnector(frame, path) == IF IsLastChild(frame, path) THEN Corner ELSE Tee

\* The continuation below a child by its position among its siblings
Continuation(frame, path) == IF IsLastChild(frame, path) THEN Blank ELSE Bar

\* One continuation for every frame strictly between the root and path
AllContinuations(frame, path) ==
    [j \in 1..(Len(path) - 1) |-> Continuation(frame, SubSeq(path, 1, j))]

\* The same, leaving out the frames of the root chain
BranchContinuations(frame, path) ==
    LET marks == [j \in 1..(Len(path) - 1) |->
                     IF OnRootChain(frame, SubSeq(path, 1, j)) THEN ""
                     ELSE Continuation(frame, SubSeq(path, 1, j))]
    IN SelectSeq(marks, LAMBDA m : m # "")

(***************************************************************************)
(* C16                                                                     *)
(***************************************************************************)
\* C16 as stated: in the full rendering every child but the last of every
\* frame has the continuing-branch connector and the vertical bar before its
\* descendants, and every last child the final-branch connector and a blank.
C16_EveryFrame ==
    FullRendering =>
        LET shape == Shape(last.text)
            paths == Paths(Rendered)
        IN /\ Len(shape) = Len(paths)
           /\ \A i \in 2..Len(paths) :
                 /\ shape[i].connector = BranchConnector(Rendered, paths[i])
                 /\ shape[i].prefix = AllContinuations(Rendered, paths[i])

\* C16 amended: the same for every child that is not on the root chain (an
\* only child reached from the root through only children, with exactly one
\* child itself); the frames of the root chain add nothing to the prefix of
\* their descendants.
C16_BranchFrames ==
    FullRendering =>
        LET shape == Shape(last.text)
            paths == Paths(Rendered)
        IN /\ Len(shape) = Len(paths)
           /\ \A i \in 2..Len(paths) :
                 ~OnRootChain(Rendered, paths[i]) =>
                    /\ shape[i].connector = BranchConnector(Rendered, paths[i])
                    /\ shape[i].prefix = BranchContinuations(Rendered, paths[i])

\* a rendered tree whose root has two children, the first with a child
C16_Witness ==
    /\ FullRendering
    /\ Len(Rendered.children) = 2
    /\ Rendered.children[1].children # <<>>
    /\ Shape(last.text)[3].prefix = <<Bar>>

(***************************************************************************)
(* C17                                                                     *)
(***************************************************************************)
\* The line of the frame at path has the continuing connector and the lines
\* of its children have the prefix of its own line
DrawnFlat(frame, shape, path) ==
    LET paths == Paths(frame)
        at(q) == CHOOSE i \in 1..Len(paths) : paths[i] = q
        node == NodeAt(frame, path)
    IN /\ node.children # <<>>
       /\ shape[at(path)].connector = Tee
       /\ \A c \in 1..Len(node.children) :
             shape[at(Append(path, c))].prefix = shape[at(path)].prefix

\* Below a frame that is not drawn flat every level is indented once more
IndentedBelow(frame, shape, path) ==
    LET paths == Paths(frame)
    IN \A i, k \in 1..Len(paths) :
          (Len(paths[k]) > Len(path)
             /\ SubSeq(paths[k], 1, Len(path)) = path /\ paths[i] = path) =>
             Len(shape[k].prefix)
                = Len(shape[i].prefix) + Len(paths[k]) - Len(path)

RECURSIVE ChainFrames(_)
\* The frames down a chain of first children
ChainFrames(children) ==
    IF children = <<>> THEN <<>>
    ELSE <<children[1]>> \o ChainFrames(children[1].children)

\* The operations that build a frame for an error given to them
Building == {"new", "raise", "raise_all"}

\* C18: every frame the importer makes from the native source chain of an
\* error has the location of the frame built for that error (the call site
\* of new / raise / raise_all), at every depth, and holds the text of its
\* link in a payload that has no type of the client and no source.
C18_ImportedFrames ==
    last.op \in Building =>
        LET root == last.result.frame
            chain == ChainFrames(Imported(root))
        IN /\ Len(chain) = NativeLen(last.error)
           /\ root.location = last.location
           /\ \A k \in 1..Len(chain) :
                 /\ chain[k].location = root.location
                 /\ TypeOf(chain[k].error) = "SourceError"
                 /\ TypeOf(chain[k].error) # TypeOf(<<last.error[k + 1]>>)
                 /\ source(chain[k].error) = None
                 /\ to_string(chain[k].error) = last.error[k + 1].msg

\* a raise under an error with the longest native chain, away from where
\* the wrapped error was captured
C18_Witness ==
    /\ last.op = "raise"
    /\ NativeLen(last.error) = MaxSrc
    /\ last.location # last.inputs[1].frame.location
    /\ Len(ChainFrames(Imported(last.result.frame))) = MaxSrc

(***************************************************************************)
(* C19                                                                     *)
(***************************************************************************)
\* The ExnAny ended with holds a ListExn (directly or inside an AnyhowExn)
HoldsList == any # None /\ any[1].value.repr \in {"List", "Anyhow<List>"}

\* The ListExn it holds
HeldList ==
    IF any[1].value.repr = "List" THEN any[1].value.error
    ELSE any[1].value.error.inner

\* C19: the List conversion of a tree is the chain of the tree's first-child
\* path from the root: link k holds the error and the location of the k-th
\* frame on the path and the chain ends at the first frame without
\* children, so that no other child and nothing below one is kept.
C19_ListIsFirstChildPath ==
    HoldsList =>
        LET chain == SourcePath(HeldList.frame)
            path == ChainFrames(<<any[1].from.frame>>)
        IN /\ Len(chain) = Len(path)
           /\ \A k \in 1..Len(path) :
                 /\ chain[k].error = path[k].error
                 /\ chain[k].location = path[k].location
           /\ path[Len(path)].children = <<>>
           /\ \A k \in 1..(Len(path) - 1) : path[k].children # <<>>

\* the List form of a tree whose root has two children, the first of them
\* with a child of its own
C19_Witness ==
    /\ HoldsList
    /\ any[1].value.repr = "List"
    /\ Len(any[1].from.frame.children) = 2
    /\ any[1].from.frame.children[1].children # <<>>
    /\ Len(SourcePath(HeldList.frame)) = 3

(***************************************************************************)
(* C20                                                                     *)
(***************************************************************************)
\* What a line shows after its prefix and connector
Shown(line) == SubSeq(line, Len(line) - DebugPieces + 1, Len(line))

Rendering == {"debug_exn", "debug_any", "display_any"}

\* C20: the full rendering of a tree has exactly one line per frame, in
\* depth-first pre-order with the children in stored order, each showing
\* its frame's message and location, the first being the root with no
\* connector; rendering changes no tree: the handles and the ExnAny are
\* what they were.
C20_OneLinePerFrame ==
    /\ [](FullRendering =>
             LET lines == Lines(last.text)
                 paths == Paths(Rendered)
             IN /\ Len(lines) = Len(paths)
                /\ lines[1] = debug(Rendered)
                /\ \A i \in 1..Len(paths) :
                      Shown(lines[i]) = debug(NodeAt(Rendered, paths[i])))
    /\ [][last'.op \in Rendering =>
             /\ pool' = pool
             /\ any' = any
             /\ last'.op = "debug_exn" => last'.self \in pool']_vars

\* a rendered tree whose root has two children, one of them with a child
C20_Witness ==
    /\ FullRendering
    /\ Len(Rendered.children) = 2
    /\ \E i \in 1..2 : Rendered.children[i].children # <<>>
    /\ Len(Lines(last.text)) = 4

(***************************************************************************)
(* C21                                                                     *)
(***************************************************************************)
\* C21: source() of an ExnAny with the Tree representation, and of the
\* Anyhow adapter over Tree, is absent for every tree, whatever children
\* the root has; source() of a bare Frame and of an ExnAny with the List
\* representation is the root's first child whenever the root has a child.
C21_SourceByRepr ==
    /\ (last.op = "source_any"
           /\ any[1].value.repr \in {"Tree", "Anyhow<Tree>"}) =>
          last.result = None
    /\ (last.op = "source_any" /\ any[1].value.repr = "List"
           /\ any[1].from.frame.children # <<>>) =>
          /\ last.result # None
          /\ SourcePath(last.result[1])
                = FirstChildPath(any[1].from.frame.children[1])
    /\ (last.op = "source_frame" /\ last.self.frame.children # <<>>) =>
          last.result = Some(last.self.frame.children[1])

\* source() asked of the ExnAny<Tree> of a tree whose root has two children
C21_Witness ==
    /\ last.op = "source_any"
    /\ any[1].value.repr = "Tree"
    /\ Len(any[1].from.frame.children) = 2
    /\ last.result = None

=============================================================================
